---- MODULE Spec2Model ----
(***************************************************************************)
(* ArubaCRM daily to-do page: the business-day calendar helpers, the       *)
(* cadence due-date computation of TodoPage.fetchData and the page's       *)
(* outreach logging, over the Supabase tables it reads and writes.         *)
(*                                                                         *)
(* A JavaScript Date is modelled by its time value, counted in whole hours *)
(* since the epoch (UTC).  A DATE column / "YYYY-MM-DD" string is modelled *)
(* by its day number since the epoch.  The browser's time zone is a fixed  *)
(* offset tz (hours east of UTC) for a whole behaviour; daylight-saving    *)
(* changes are not modelled.                                               *)
(***************************************************************************)
EXTENDS Integers, Sequences, FiniteSets, TLC

VARIABLES
    tz,                 \* browser time zone: local time = UTC + tz hours
    now,                \* the wall clock, hours since the epoch (UTC)
    ticks,              \* number of clock advances so far
    opportunities,      \* table opportunities (joined with health_systems)
    contacts,           \* table contacts, in the order select('*') returns it
    outreach_logs,      \* table outreach_logs, in insertion order
    today,              \* fetchData's local `today` of its latest run
    allDueContacts,     \* fetchData's local `allDueContacts` of its latest run
    todayContacts,      \* React state todayContacts
    nextDayContacts,    \* React state nextDayContacts
    nextBusinessDay,    \* React state nextBusinessDay
    isBusinessDayToday, \* React state isBusinessDayToday
    loading,            \* React state loading
    selections,         \* React state selections
    submittingId,       \* React state submittingId
    inflight,           \* outreach_logs inserts awaiting their response
    calPc,              \* calendar harness: position
    calStart,           \* calendar harness: start date
    calN,               \* calendar harness: number of business days
    calResult,          \* calendar harness: addBusinessDays(calStart, calN)
    calCount,           \* calendar harness: countBusinessDays(calStart, calResult)
    calEnd,             \* calendar harness: an end date
    calEnd2,            \* calendar harness: a second end date, not before calEnd
    calIsBiz,           \* calendar harness: isBusinessDay(calStart)
    calNext,            \* calendar harness: getNextBusinessDay(calStart)
    calCountEnd,        \* calendar harness: countBusinessDays(calStart, calEnd)
    calCountEnd2,       \* calendar harness: countBusinessDays(calStart, calEnd2)
    failed,             \* tables whose select returns { data: null, error }
    threw,              \* fetchData's promise was rejected by an exception
    showForm,           \* contact form on screen: "none", "new", "edit" or "modal"
    formCadence,        \* formData.cadence_days / formData.cadences[assignment_id]
    assignment,         \* contact_opportunities.cadence_days of the row ({}: no row)
    lastWrite,          \* cadence_days of the latest insert/update sent by a form
    promptNotes,        \* prompt harness: contact.notes ({}: null)
    promptText,         \* prompt harness: buildLlmPromptForContact's result ({}: not built)
    lpKind,             \* loop harness: the loop that runs
    lpPc,               \* loop harness: "off", "start", "loop" or "done"
    lpFrom,             \* loop harness: the start date argument
    lpArg,              \* loop harness: businessDays / endDate argument
    lpDate,             \* loop harness: the loop's date (result, current, next, checkDate)
    lpCount,            \* loop harness: the loop's counter (daysAdded, count, streak)
    lpSteps,            \* loop harness: setDate calls made so far
    coContacts,         \* table contacts of the account: the ids of its rows
    contact_opportunities, \* table contact_opportunities: the set of its rows
    coNextId,           \* the next id gen_random_uuid() hands out
    coView,             \* per session: opportunityId, contacts, unassignedContacts
    coInflight,         \* contact_opportunities inserts awaiting their response
    coAlert,            \* per session: the alert() on screen ("none": no alert)
    appPassword,        \* process.env.APP_PASSWORD ({}: not set)
    authCookie,         \* the browser's auth_token cookie ({}: none)
    authRequest,        \* the latest request: its path and auth_token cookie
    authResponse        \* the answer to the latest request

vars == <<tz, now, ticks, opportunities, contacts, outreach_logs, today,
          allDueContacts, todayContacts, nextDayContacts, nextBusinessDay,
          isBusinessDayToday, loading, selections, submittingId, inflight,
          calPc, calStart, calN, calResult, calCount, calEnd, calEnd2, calIsBiz,
          calNext, calCountEnd, calCountEnd2, failed, threw, showForm,
          formCadence, assignment, lastWrite, promptNotes, promptText,
          lpKind, lpPc, lpFrom, lpArg, lpDate, lpCount, lpSteps,
          coContacts, contact_opportunities, coNextId, coView, coInflight, coAlert,
          appPassword, authCookie, authRequest, authResponse>>

dbVars == <<opportunities, contacts, failed>>
pageVars == <<today, allDueContacts, todayContacts, nextDayContacts,
              nextBusinessDay, isBusinessDayToday, loading, threw>>
dayVars == <<calEnd, calEnd2, calIsBiz, calNext, calCountEnd, calCountEnd2>>
calVars == <<calPc, calStart, calN, calResult, calCount, dayVars>>
formVars == <<showForm, formCadence, assignment, lastWrite>>
promptVars == <<promptNotes, promptText>>
loopVars == <<lpKind, lpPc, lpFrom, lpArg, lpDate, lpCount, lpSteps>>
assignVars == <<coContacts, contact_opportunities, coNextId, coView, coInflight, coAlert>>
authVars == <<appPassword, authCookie, authRequest, authResponse>>
sideVars == <<promptVars, loopVars, assignVars, authVars>>
baseVars == <<tz, now, ticks, dbVars, outreach_logs, pageVars, selections,
              submittingId, inflight, calVars, formVars>>

----------------------------------------------------------------------------
(* Bounds of the model *)

BaseDay == 100          \* first day number of the window of dates
LookBack == 9           \* days of outreach history before the first "today"
WeekLen == 6            \* "today" ranges over BaseDay+LookBack .. +WeekLen
MaxN == 11              \* largest business-day count given to addBusinessDays
MaxTicks == 1           \* clock advances per behaviour
TickHours == 19         \* hours per clock advance
MaxLogs == 2            \* rows of outreach_logs
EndSpan == 4            \* end dates reach this many days past the last start date

(* Program constants *)

HoursPerDay == 24
DefaultCadence == 10
InfinityDate == 1000000             \* day number standing for the DATE value 'infinity'
MinCadence == 1                     \* <input type="number" min="1" ...>
MaxCadence == 90                    \* <input type="number" ... max="90">
EmptyFormCadence == 10              \* emptyContactForm.cadence_days
InvalidInputCadence == 10           \* parseInt(e.target.value) || 10
AssignCadence == 10                 \* handleAssignContact(contactId, cadenceDays = 10)

TimeZones == {0 - 5, 0, 2}          \* e.g. US Eastern, UTC, Central Europe (no DST)
ClockHour == 3                      \* UTC hour of day of the first clock value
Null == "null"                      \* null / undefined of an id or status

----------------------------------------------------------------------------
(* JavaScript Date *)

\* Date.prototype.getDay(): day of the week in local time, 0 = Sunday.
\* Day number 0 (1970-01-01) is a Thursday.
getDay(date) == (((date + tz) \div HoursPerDay) + 4) % 7

\* date.setDate(date.getDate() + 1): same local time on the next local day.
setDatePlus1(date) == date + HoursPerDay

\* date.setHours(0, 0, 0, 0): local midnight of the date's local day.
setHours0(date) == ((date + tz) \div HoursPerDay) * HoursPerDay - tz

\* new Date("YYYY-MM-DD"): a date-only string is parsed as UTC midnight.
parseDate(str) == str * HoursPerDay

\* The local calendar day of a Date (date-only granularity).
localDay(date) == (date + tz) \div HoursPerDay

----------------------------------------------------------------------------
(* Business-day helpers *)

isBusinessDay(date) ==
    LET day == getDay(date)
    IN  day # 0 /\ day # 6

RECURSIVE getNextBusinessDayLoop(_)
getNextBusinessDayLoop(next) ==
    IF ~isBusinessDay(next)
    THEN getNextBusinessDayLoop(setDatePlus1(next))
    ELSE next

\* Variant: the date itself is returned when it is a business day.
getNextBusinessDay_orSame(fromDate) == getNextBusinessDayLoop(fromDate)

getNextBusinessDay(fromDate) == getNextBusinessDayLoop(setDatePlus1(fromDate))

RECURSIVE countBusinessDaysLoop(_, _, _)
countBusinessDaysLoop(current, endDate, count) ==
    IF current <= endDate
    THEN countBusinessDaysLoop(setDatePlus1(current), endDate,
                               IF isBusinessDay(current) THEN count + 1 ELSE count)
    ELSE count

\* Variant: the start date itself is counted.
countBusinessDays_fromStart(startDate, endDate) ==
    countBusinessDaysLoop(startDate, endDate, 0)

countBusinessDays(startDate, endDate) ==
    countBusinessDaysLoop(setDatePlus1(startDate), endDate, 0)

RECURSIVE addBusinessDaysLoop(_, _, _)
addBusinessDaysLoop(result, daysAdded, businessDays) ==
    IF daysAdded < businessDays
    THEN LET r == setDatePlus1(result)
         IN  addBusinessDaysLoop(r, IF isBusinessDay(r) THEN daysAdded + 1 ELSE daysAdded,
                                 businessDays)
    ELSE result

\* Variant: counts calendar days, weekends included.
addBusinessDays_calendarDays(startDate, businessDays) ==
    IF businessDays > 0 THEN startDate + businessDays * HoursPerDay ELSE startDate

addBusinessDays(startDate, businessDays) ==
    addBusinessDaysLoop(startDate, 0, businessDays)

\* date.toISOString().split('T')[0]: the UTC calendar day of the date.
formatDate(date) == date \div HoursPerDay

----------------------------------------------------------------------------
(* Strings: an account name is the sequence of its character codes *)

toLower(ch) == IF ch \in 65..90 THEN ch + 32 ELSE ch

RECURSIVE lexCompare(_, _)
lexCompare(a, b) ==
    IF a = <<>> /\ b = <<>> THEN 0
    ELSE IF a = <<>> THEN 0 - 1
    ELSE IF b = <<>> THEN 1
    ELSE IF Head(a) < Head(b) THEN 0 - 1
    ELSE IF Head(a) > Head(b) THEN 1
    ELSE lexCompare(Tail(a), Tail(b))

\* Variant: comparison by UTF-16 code units, as the < operator on strings.
localeCompare_codeUnits(a, b) == lexCompare(a, b)

\* String.prototype.localeCompare with the default (root) collation on
\* letters: the letters decide first, whatever their case; names that differ
\* only in case are ordered lower case first.
localeCompare(a, b) ==
    LET primary == lexCompare([i \in DOMAIN a |-> toLower(a[i])],
                              [i \in DOMAIN b |-> toLower(b[i])])
    IN  IF primary # 0 THEN primary
        ELSE lexCompare([i \in DOMAIN a |-> IF a[i] \in 65..90 THEN 1 ELSE 0],
                        [i \in DOMAIN b |-> IF b[i] \in 65..90 THEN 1 ELSE 0])

----------------------------------------------------------------------------
(* TodoPage.fetchData *)

\* Variant: every opportunity passes the filter.
isProspect_anyStatus(o) == TRUE

\* (o) => !o.status || o.status === 'prospect'
isProspect(o) == o.status = Null \/ o.status = "prospect"

\* (allOppsData || []).filter(...).map(o => o.id): a failed select has data null.
prospectOppIds ==
    IF "opportunities" \in failed THEN {}
    ELSE {id \in DOMAIN opportunities : isProspect(opportunities[id])}

\* supabase.from('contacts').select('*').in('opportunity_id', prospectOppIds),
\* read as contactsData || []
contactsData ==
    IF "contacts" \in failed THEN <<>>
    ELSE SelectSeq(contacts, LAMBDA c : c.opportunity_id \in prospectOppIds)

\* supabase.from('outreach_logs').select('*').order('contact_date', ...),
\* read as logsData || []
logsData(logs) == IF "outreach_logs" \in failed THEN <<>> ELSE logs

\* oppsMap[contact.opportunity_id || '']
oppsMap == [id \in prospectOppIds |-> opportunities[id]]

\* Variant: the logs are read in insertion order, without the ORDER BY.
lastOutreach_firstInserted(logs, contact_id) ==
    LET mine == SelectSeq(logs, LAMBDA l : l.contact_id = contact_id)
    IN  IF mine = <<>> THEN {} ELSE {mine[1].contact_date}

\* lastOutreach[contact_id]: the first log of the contact in descending
\* contact_date order, i.e. its greatest contact_date (the method stored
\* with it is never read).  The empty set stands for "no entry".
lastOutreach(logs, contact_id) ==
    LET dates == {logs[i].contact_date : i \in {j \in DOMAIN logs : logs[j].contact_id = contact_id}}
    IN  IF dates = {} THEN {}
        ELSE {CHOOSE d \in dates : \A e \in dates : e <= d}

\* new Date(last.date) is a valid Date.  PostgreSQL's DATE value 'infinity'
\* is not a date string JavaScript can parse.
isValidDate(str) == str # InfinityDate

\* The forEach body raises for this contact: new Date(last.date) is an
\* Invalid Date, setHours and addBusinessDays leave it invalid (getDay() is
\* NaN, so every loop of addBusinessDays ends), and formatDate(dueDate)
\* calls toISOString(), which throws RangeError on an Invalid Date.
dueInfoThrows(contact, logs) ==
    LET last == lastOutreach(logs, contact.id)
    IN  last # {} /\ ~isValidDate(CHOOSE d \in last : TRUE)

\* contact.cadence_days || 10
cadenceOf(contact) ==
    IF contact.cadence_days = 0 THEN DefaultCadence ELSE contact.cadence_days

\* Variant: never-contacted contacts are always due on the next business day.
neverContactedDue_alwaysNext(todayDate, isBizDay, nextBizDay) == nextBizDay

\* Never contacted: dueDate = isBizDay ? today : nextBizDay
neverContactedDue(todayDate, isBizDay, nextBizDay) ==
    IF isBizDay THEN todayDate ELSE nextBizDay

\* Variant: the business-day condition is left out.
isRollover_anyDay(dueDate, todayDate, isBizDay) == dueDate < todayDate

\* const isRollover = dueDate < today && isBizDay
isRollover(dueDate, todayDate, isBizDay) == dueDate < todayDate /\ isBizDay

\* The body of (contactsData || []).forEach(...) for one contact with an
\* entry in oppsMap.  Field dueDate keeps the local variable `dueDate`,
\* which the page itself does not store.
dueInfo(contact, logs, todayDate, isBizDay, nextBizDay) ==
    LET opp == oppsMap[contact.opportunity_id]
        last == lastOutreach(logs, contact.id)
        lastContactDate == setHours0(parseDate(CHOOSE d \in last : TRUE))
        dueDate == IF last # {}
                   THEN addBusinessDays(lastContactDate, cadenceOf(contact))
                   ELSE neverContactedDue(todayDate, isBizDay, nextBizDay)
    IN  [id |-> contact.id,
         opportunity_id |-> contact.opportunity_id,
         cadence_days |-> contact.cadence_days,
         health_system |-> opp.health_system,
         last_contact_date |-> last,
         days_since_contact |-> IF last # {}
                                THEN {(todayDate - lastContactDate) \div HoursPerDay}
                                ELSE {},
         days_overdue |-> countBusinessDays(dueDate, todayDate),
         due_date |-> formatDate(dueDate),
         is_rollover |-> isRollover(dueDate, todayDate, isBizDay),
         dueDate |-> dueDate]

\* Comparator of the todaysDue sort.
compareToday(a, b) ==
    IF a.is_rollover # b.is_rollover THEN (IF a.is_rollover THEN 0 - 1 ELSE 1)
    ELSE IF a.days_overdue # b.days_overdue THEN b.days_overdue - a.days_overdue
    ELSE localeCompare(a.health_system, b.health_system)

\* Comparator of the nextDaysDue sort.
compareNext(a, b) == localeCompare(a.health_system, b.health_system)

compare(which, a, b) == IF which = "today" THEN compareToday(a, b) ELSE compareNext(a, b)

\* Array.prototype.sort is stable: an element is inserted after every
\* element that does not compare greater than it.
RECURSIVE insertSorted(_, _, _)
insertSorted(which, sorted, x) ==
    IF sorted = <<>> THEN <<x>>
    ELSE IF compare(which, sorted[Len(sorted)], x) <= 0 THEN Append(sorted, x)
    ELSE Append(insertSorted(which, SubSeq(sorted, 1, Len(sorted) - 1), x),
                sorted[Len(sorted)])

RECURSIVE sortLoop(_, _, _)
sortLoop(which, sorted, rest) ==
    IF rest = <<>> THEN sorted
    ELSE sortLoop(which, insertSorted(which, sorted, Head(rest)), Tail(rest))

sort(which, arr) == sortLoop(which, <<>>, arr)

\* Filter of todaysDue: the due_date string parsed back and cut to local midnight.
isDueToday(c, todayDate) == setHours0(parseDate(c.due_date)) <= todayDate

\* Variant: everything due up to the next business day passes the filter.
isDueNextDay_orEarlier(c, nextBizDay) ==
    formatDate(setHours0(parseDate(c.due_date))) <= formatDate(nextBizDay)

\* Filter of nextDaysDue.
isDueNextDay(c, nextBizDay) ==
    formatDate(setHours0(parseDate(c.due_date))) = formatDate(nextBizDay)

\* One run of fetchData on the clock value nowDate and the log table logs.
fetchResult(nowDate, logs) ==
    LET todayDate == setHours0(nowDate)
        isBizDay == isBusinessDay(todayDate)
        nextBizDay == getNextBusinessDay(todayDate)
        \* const opp = oppsMap[contact.opportunity_id || '']; if (!opp) return;
        processed == SelectSeq(contactsData, LAMBDA c : c.opportunity_id \in DOMAIN oppsMap)
        all == [i \in DOMAIN processed |->
                    dueInfo(processed[i], logsData(logs), todayDate, isBizDay, nextBizDay)]
        throws == \E i \in DOMAIN processed : dueInfoThrows(processed[i], logsData(logs))
    IN  IF prospectOppIds = {}
        THEN [today |-> todayDate, isBizDay |-> isBizDay, nextBizDay |-> nextBizDay,
              throws |-> FALSE,
              all |-> <<>>, todaysDue |-> <<>>, nextDaysDue |-> <<>>]
        ELSE IF throws
        THEN [today |-> todayDate, isBizDay |-> isBizDay, nextBizDay |-> nextBizDay,
              throws |-> TRUE,
              all |-> <<>>, todaysDue |-> <<>>, nextDaysDue |-> <<>>]
        ELSE [today |-> todayDate, isBizDay |-> isBizDay, nextBizDay |-> nextBizDay,
              throws |-> FALSE,
              all |-> all,
              todaysDue |-> sort("today", SelectSeq(all, LAMBDA c : isDueToday(c, todayDate))),
              nextDaysDue |-> sort("next", SelectSeq(all, LAMBDA c : isDueNextDay(c, nextBizDay)))]

\* The state fetchData leaves behind.  An exception in the forEach rejects
\* the promise after setIsBusinessDayToday and setNextBusinessDay: the lists
\* and `loading` keep their values.
fetchData(nowDate, logs) ==
    LET r == fetchResult(nowDate, logs)
    IN  /\ today' = r.today
        /\ isBusinessDayToday' = r.isBizDay
        /\ nextBusinessDay' = {r.nextBizDay}
        /\ allDueContacts' = r.all
        /\ threw' = r.throws
        /\ IF r.throws
           THEN UNCHANGED <<todayContacts, nextDayContacts, loading>>
           ELSE /\ todayContacts' = r.todaysDue
                /\ nextDayContacts' = r.nextDaysDue
                /\ loading' = FALSE

----------------------------------------------------------------------------
(* The tables and the clock the page starts from *)

OppIds == {"o1", "o2"}
Statuses == {Null, "prospect", "active", "won"}
Cadences == {0 - 2, 0, 1, 5}         \* 0: a falsy cadence_days (0, null, undefined)
NameA == <<97>>
NameB == <<98>>

FirstToday == BaseDay + LookBack
LogDates == BaseDay .. (FirstToday + WeekLen + 1)
Clocks == {(FirstToday + d) * HoursPerDay + ClockHour : d \in 0 .. WeekLen}

logRow(contact_id, contact_date, contact_method) ==
    [contact_id |-> contact_id, contact_date |-> contact_date,
     contact_method |-> contact_method]

PageInit ==
    /\ today = 0
    /\ allDueContacts = <<>>
    /\ todayContacts = <<>>
    /\ nextDayContacts = <<>>
    /\ nextBusinessDay = {}
    /\ isBusinessDayToday = TRUE
    /\ loading = TRUE
    /\ threw = FALSE
    /\ selections = <<>>
    /\ submittingId = Null
    /\ inflight = <<>>

CalOff ==
    /\ calPc = "off"
    /\ calStart = 0
    /\ calN = 0
    /\ calResult = 0
    /\ calCount = 0
    /\ calEnd = 0
    /\ calEnd2 = 0
    /\ calIsBiz = FALSE
    /\ calNext = 0
    /\ calCountEnd = 0
    /\ calCountEnd2 = 0

\* No contact form is open and no form has written a cadence.
FormOff ==
    /\ showForm = "none"
    /\ formCadence = EmptyFormCadence
    /\ assignment = {}
    /\ lastWrite = {}

\* No prompt has been built.
PromptOff ==
    /\ promptNotes = {}
    /\ promptText = {}

\* No loop runs.
LoopOff ==
    /\ lpKind = "none"
    /\ lpPc = "off"
    /\ lpFrom = 0
    /\ lpArg = 0
    /\ lpDate = 0
    /\ lpCount = 0
    /\ lpSteps = 0

\* No opportunity page is open and the assignment table is empty.
AssignOff ==
    /\ coContacts = {}
    /\ contact_opportunities = {}
    /\ coNextId = 0
    /\ coView = <<>>
    /\ coInflight = <<>>
    /\ coAlert = <<>>

\* No request has been made.
AuthOff ==
    /\ appPassword = {}
    /\ authCookie = {}
    /\ authRequest = [path |-> <<>>, cookie |-> {}]
    /\ authResponse = "none"

\* The prompt builder, the step-wise loops, the assignment table and the
\* password gate are at rest.
SideOff ==
    /\ PromptOff
    /\ LoopOff
    /\ AssignOff
    /\ AuthOff

Init ==
    /\ tz \in TimeZones
    /\ now \in Clocks
    /\ ticks = 0
    /\ \E s1 \in Statuses, s2 \in {"prospect", "won"} :
          opportunities = [id \in OppIds |->
              IF id = "o1" THEN [status |-> s1, health_system |-> NameB]
                           ELSE [status |-> s2, health_system |-> NameA]]
    /\ \E cad \in Cadences :
          contacts = <<[id |-> "c1", opportunity_id |-> "o1", cadence_days |-> cad]>>
    /\ \/ outreach_logs = <<>>
       \/ \E d \in LogDates : outreach_logs = <<logRow("c1", d, "email")>>
    /\ failed = {}
    /\ PageInit
    /\ CalOff
    /\ FormOff
    /\ SideOff

----------------------------------------------------------------------------
(* The page's operations *)

\* useEffect(() => { fetchData(); }, []): the fetch of the page load.
Mount ==
    /\ loading
    /\ ~threw
    /\ fetchData(now, outreach_logs)
    /\ UNCHANGED <<tz, now, ticks, dbVars, sideVars, outreach_logs, selections, submittingId,
                   inflight, calVars, formVars>>

\* Time passes.
Tick ==
    /\ calPc = "off"
    /\ ticks < MaxTicks
    /\ ticks' = ticks + 1
    /\ now' = now + TickHours
    /\ UNCHANGED <<tz, dbVars, sideVars, outreach_logs, pageVars, selections, submittingId,
                   inflight, calVars, formVars>>

\* A contact's card is on screen: the regular view with today's activities.
cardShown(contactId) ==
    /\ ~loading
    /\ isBusinessDayToday
    /\ \E i \in DOMAIN todayContacts : todayContacts[i].id = contactId

\* selections[contactId] || { emailed: false, called: false }
selectionOf(contactId) ==
    IF contactId \in DOMAIN selections
    THEN selections[contactId]
    ELSE [emailed |-> FALSE, called |-> FALSE]

toggleSelection(contactId, field) ==
    /\ cardShown(contactId)
    /\ LET prev == selectionOf(contactId)
           new == IF field = "emailed"
                  THEN [prev EXCEPT !.emailed = ~prev.emailed]
                  ELSE [prev EXCEPT !.called = ~prev.called]
       IN  selections' = [id \in DOMAIN selections \cup {contactId} |->
                              IF id = contactId THEN new ELSE selections[id]]
    /\ UNCHANGED <<tz, now, ticks, dbVars, sideVars, outreach_logs, pageVars, submittingId,
                   inflight, calVars, formVars>>

\* Variant: one row per submit, whatever is selected.
logsOf_singleRow(contactId, selection) ==
    <<[contact_id |-> contactId,
       contact_method |-> IF selection.emailed THEN "email" ELSE "call"]>>

\* The rows handleSubmit builds from a selection.
logsOf(contactId, selection) ==
    (IF selection.emailed THEN <<[contact_id |-> contactId, contact_method |-> "email"]>>
                          ELSE <<>>)
    \o (IF selection.called THEN <<[contact_id |-> contactId, contact_method |-> "call"]>>
                            ELSE <<>>)

RECURSIVE pendingRows(_)
pendingRows(reqs) ==
    IF reqs = <<>> THEN 0 ELSE Len(Head(reqs).logs) + pendingRows(Tail(reqs))

\* handleSubmit up to `await supabase.from('outreach_logs').insert(logs)`.
\* The Mark Complete button is disabled while submittingId is this contact
\* or nothing is selected.
handleSubmit(contactId) ==
    /\ cardShown(contactId)
    /\ submittingId # contactId
    /\ LET selection == selectionOf(contactId)
       IN  /\ selection.emailed \/ selection.called
           /\ Len(outreach_logs) + pendingRows(inflight)
                 + Len(logsOf(contactId, selection)) <= MaxLogs
           /\ inflight' = Append(inflight, [contact_id |-> contactId,
                                            logs |-> logsOf(contactId, selection)])
    /\ submittingId' = contactId
    /\ UNCHANGED <<tz, now, ticks, dbVars, sideVars, outreach_logs, pageVars, selections, calVars, formVars>>

removeAt(seq, i) == SubSeq(seq, 1, i - 1) \o SubSeq(seq, i + 1, Len(seq))

\* handleSubmit after the insert succeeded: the rows get
\* contact_date DEFAULT CURRENT_DATE (the database runs in UTC), the
\* selection is cleared, fetchData runs again, submittingId is reset.
insertOk(i) ==
    LET req == inflight[i]
        rows == [k \in DOMAIN req.logs |->
                    logRow(req.logs[k].contact_id, formatDate(now), req.logs[k].contact_method)]
    IN  /\ outreach_logs' = outreach_logs \o rows
        /\ selections' = [id \in DOMAIN selections \ {req.contact_id} |-> selections[id]]
        /\ fetchData(now, outreach_logs')
        /\ submittingId' = Null
        /\ inflight' = removeAt(inflight, i)
        /\ UNCHANGED <<tz, now, ticks, dbVars, sideVars, calVars, formVars>>

\* handleSubmit after the insert failed.
insertError(i) ==
    /\ submittingId' = Null
    /\ inflight' = removeAt(inflight, i)
    /\ UNCHANGED <<tz, now, ticks, dbVars, sideVars, outreach_logs, pageVars, selections, calVars, formVars>>

ContactIds == {contacts[i].id : i \in DOMAIN contacts}

ToggleSelection == \E id \in ContactIds, field \in {"emailed", "called"} : toggleSelection(id, field)
HandleSubmit == \E id \in ContactIds : handleSubmit(id)
InsertOk == \E i \in DOMAIN inflight : insertOk(i)
InsertError == \E i \in DOMAIN inflight : insertError(i)

Next ==
    \/ Mount
    \/ Tick
    \/ ToggleSelection
    \/ HandleSubmit
    \/ InsertOk
    \/ InsertError

Spec == Init /\ [][Next]_vars

----------------------------------------------------------------------------
(* The calendar helpers applied to every start date and count *)

AppOff ==
    /\ now = 0
    /\ ticks = 0
    /\ opportunities = <<>>
    /\ contacts = <<>>
    /\ outreach_logs = <<>>
    /\ failed = {}
    /\ PageInit

CalStarts == {d * HoursPerDay + h : d \in BaseDay .. (BaseDay + WeekLen), h \in {0, ClockHour, TickHours}}

InitCal ==
    /\ tz \in TimeZones
    /\ AppOff
    /\ calPc = "start"
    /\ calStart \in CalStarts
    /\ calN \in (0 - 1) .. MaxN
    /\ calResult = 0
    /\ calCount = 0
    /\ calEnd = 0
    /\ calEnd2 = 0
    /\ calIsBiz = FALSE
    /\ calNext = 0
    /\ calCountEnd = 0
    /\ calCountEnd2 = 0
    /\ FormOff
    /\ SideOff

CalAdd ==
    /\ calPc = "start"
    /\ calResult' = addBusinessDays(calStart, calN)
    /\ calPc' = "added"
    /\ UNCHANGED <<tz, now, ticks, dbVars, sideVars, outreach_logs, pageVars, selections,
                   submittingId, inflight, calStart, calN, calCount, dayVars, formVars>>

CalCount ==
    /\ calPc = "added"
    /\ calCount' = countBusinessDays(calStart, calResult)
    /\ calPc' = "counted"
    /\ UNCHANGED <<tz, now, ticks, dbVars, sideVars, outreach_logs, pageVars, selections,
                   submittingId, inflight, calStart, calN, calResult, dayVars, formVars>>

NextCal ==
    \/ CalAdd
    \/ CalCount

SpecCal == InitCal /\ [][NextCal]_vars

----------------------------------------------------------------------------
(* isBusinessDay, getNextBusinessDay and countBusinessDays applied to every *)
(* start date and every pair of end dates                                   *)

CalEnds == {d * HoursPerDay + h : d \in (BaseDay - 2) .. (BaseDay + WeekLen + EndSpan),
                                 h \in {0, TickHours}}

InitDays ==
    /\ tz \in TimeZones
    /\ AppOff
    /\ FormOff
    /\ SideOff
    /\ calPc = "start"
    /\ calStart \in CalStarts
    /\ calN = 0
    /\ calResult = 0
    /\ calCount = 0
    /\ calEnd \in CalEnds
    /\ calEnd2 \in {e \in CalEnds : calEnd <= e}
    /\ calIsBiz = FALSE
    /\ calNext = 0
    /\ calCountEnd = 0
    /\ calCountEnd2 = 0

CalDay ==
    /\ calPc = "start"
    /\ calIsBiz' = isBusinessDay(calStart)
    /\ calNext' = getNextBusinessDay(calStart)
    /\ calPc' = "day"
    /\ UNCHANGED <<tz, now, ticks, dbVars, sideVars, outreach_logs, pageVars, selections,
                   submittingId, inflight, calStart, calN, calResult, calCount,
                   calEnd, calEnd2, calCountEnd, calCountEnd2, formVars>>

CalCountEnds ==
    /\ calPc = "day"
    /\ calCountEnd' = countBusinessDays(calStart, calEnd)
    /\ calCountEnd2' = countBusinessDays(calStart, calEnd2)
    /\ calPc' = "ends"
    /\ UNCHANGED <<tz, now, ticks, dbVars, sideVars, outreach_logs, pageVars, selections,
                   submittingId, inflight, calStart, calN, calResult, calCount,
                   calEnd, calEnd2, calIsBiz, calNext, formVars>>

NextDays ==
    \/ CalDay
    \/ CalCountEnds

SpecDays == InitDays /\ [][NextDays]_vars

----------------------------------------------------------------------------
(* Page loads over three contacts of three accounts, for the list order *)

SortNames == {<<97>>, <<65>>, <<66>>}       \* "a", "A", "B"
SortLogDays == {2, 6}                       \* last outreach, days before FirstToday (0: none)

InitSort ==
    /\ tz \in TimeZones
    /\ now \in Clocks
    /\ ticks = 0
    /\ \E n1 \in SortNames, n2 \in SortNames, n3 \in SortNames :
          opportunities = [id \in {"o1", "o2", "o3"} |->
              [status |-> "prospect",
               health_system |-> IF id = "o1" THEN n1 ELSE IF id = "o2" THEN n2 ELSE n3]]
    /\ contacts = <<[id |-> "c1", opportunity_id |-> "o1", cadence_days |-> 1],
                    [id |-> "c2", opportunity_id |-> "o2", cadence_days |-> 1],
                    [id |-> "c3", opportunity_id |-> "o3", cadence_days |-> 1]>>
    /\ \E d1 \in {0} \cup SortLogDays, d2 \in {0} \cup SortLogDays, d3 \in {0} \cup SortLogDays :
          outreach_logs =
              (IF d1 = 0 THEN <<>> ELSE <<logRow("c1", FirstToday - d1, "call")>>)
              \o (IF d2 = 0 THEN <<>> ELSE <<logRow("c2", FirstToday - d2, "call")>>)
              \o (IF d3 = 0 THEN <<>> ELSE <<logRow("c3", FirstToday - d3, "call")>>)
    /\ failed = {}
    /\ PageInit
    /\ CalOff
    /\ FormOff
    /\ SideOff

NextSort ==
    \/ Mount
    \/ Tick

SpecSort == InitSort /\ [][NextSort]_vars

----------------------------------------------------------------------------
(* Page loads with failing selects and with an unparseable contact_date *)

Tables == {"opportunities", "contacts", "outreach_logs"}
FaultLogDates == {BaseDay, FirstToday - 1, InfinityDate}

InitFault ==
    /\ tz \in TimeZones
    /\ now \in Clocks
    /\ ticks = 0
    /\ \E s2 \in {"prospect", "won"} :
          opportunities = [id \in OppIds |->
              IF id = "o1" THEN [status |-> "prospect", health_system |-> NameB]
                           ELSE [status |-> s2, health_system |-> NameA]]
    /\ \E cad \in Cadences :
          contacts = <<[id |-> "c1", opportunity_id |-> "o1", cadence_days |-> cad]>>
    /\ \/ outreach_logs = <<>>
       \/ \E d \in FaultLogDates : outreach_logs = <<logRow("c1", d, "email")>>
       \/ outreach_logs = <<logRow("c1", BaseDay, "call"), logRow("c1", InfinityDate, "email")>>
    /\ failed \in SUBSET Tables
    /\ PageInit
    /\ CalOff
    /\ FormOff
    /\ SideOff

NextFault ==
    \/ Mount
    \/ Tick

SpecFault == InitFault /\ [][NextFault]_vars

----------------------------------------------------------------------------
(* The contact forms: the New/Edit Contact form of the opportunity page and *)
(* ContactEditModal, over one contact_opportunities row.  The text of the   *)
(* cadence field is the sequence of its characters.                         *)

Digits == <<"0", "1", "2", "3", "4", "5", "6", "7", "8", "9">>

isDigit(ch) == \E i \in DOMAIN Digits : Digits[i] = ch

digitValue(ch) == (CHOOSE i \in DOMAIN Digits : Digits[i] = ch) - 1

\* The value of the longest prefix of digits, read after the digits `acc`.
RECURSIVE parseDigits(_, _)
parseDigits(text, acc) ==
    IF text = <<>> \/ ~isDigit(Head(text)) THEN acc
    ELSE parseDigits(Tail(text), acc * 10 + digitValue(Head(text)))

\* parseInt(text): an optional sign, then the longest prefix of digits; the
\* rest of the text is ignored.  The empty set stands for NaN.
parseInt(text) ==
    LET negative == text # <<>> /\ Head(text) = "-"
        body == IF negative THEN Tail(text) ELSE text
    IN  IF body = <<>> \/ ~isDigit(Head(body)) THEN {}
        ELSE {IF negative THEN 0 - parseDigits(body, 0) ELSE parseDigits(body, 0)}

\* parseInt(e.target.value) || 10: NaN and 0 are falsy.
cadenceInput(text) ==
    LET n == parseInt(text)
    IN  IF n = {} \/ n = {0} THEN InvalidInputCadence ELSE CHOOSE v \in n : TRUE

\* e.target.value of the number input: the text typed, or "" when the text
\* is not a number.
TypedTexts ==
    {<<>>, <<"0">>, <<"1">>, <<"7">>, <<"9", "0">>, <<"9", "1">>, <<"5", "0", "0">>,
     <<"-", "2">>, <<"2", ".", "5">>, <<"1", "e", "2">>}

\* Variant: the form is submitted without the browser's validation.
validCadence_unchecked(value) == TRUE

\* Constraint validation of <input type="number" min="1" max="90"> when the
\* form is submitted: a value out of range blocks the submit event.
validCadence(value) == MinCadence <= value /\ value <= MaxCadence

\* cadence_days of rows written outside the forms (the column has no CHECK).
StoredCadences == {0 - 2, 0, 10, 200}

InitForm ==
    /\ tz = 0
    /\ AppOff
    /\ CalOff
    /\ showForm = "none"
    /\ formCadence = EmptyFormCadence
    /\ assignment \in {{}} \cup {{n} : n \in StoredCadences}
    /\ lastWrite = {}
    /\ SideOff

appVars == <<tz, now, ticks, dbVars, sideVars, outreach_logs, pageVars, selections,
             submittingId, inflight, calVars>>

\* "+ New Contact": setShowForm(true); formData is emptyContactForm.
NewContact ==
    /\ showForm = "none"
    /\ assignment = {}
    /\ showForm' = "new"
    /\ UNCHANGED <<formCadence, assignment, lastWrite, appVars>>

\* handleEdit(contact): the stored cadence is loaded into the form.
handleEdit ==
    /\ showForm = "none"
    /\ assignment # {}
    /\ showForm' = "edit"
    /\ formCadence' = CHOOSE n \in assignment : TRUE
    /\ UNCHANGED <<assignment, lastWrite, appVars>>

\* ContactEditModal is opened: useState(() => cadences[assignment_id] = opp.cadence_days).
OpenModal ==
    /\ showForm = "none"
    /\ assignment # {}
    /\ showForm' = "modal"
    /\ formCadence' = CHOOSE n \in assignment : TRUE
    /\ UNCHANGED <<assignment, lastWrite, appVars>>

\* onChange of the cadence field, in either form.
TypeCadence ==
    /\ showForm # "none"
    /\ \E text \in TypedTexts : formCadence' = cadenceInput(text)
    /\ UNCHANGED <<showForm, assignment, lastWrite, appVars>>

\* OpportunityDetailPage.handleSubmit: insert (new) or update (edit) of the
\* contact_opportunities row with formData.cadence_days.
SubmitForm ==
    /\ showForm \in {"new", "edit"}
    /\ validCadence(formCadence)
    /\ assignment' = {formCadence}
    /\ lastWrite' = {formCadence}
    /\ showForm' = "none"
    /\ formCadence' = EmptyFormCadence
    /\ UNCHANGED appVars

\* ContactEditModal.handleSubmit: the row is updated when the cadence changed.
SubmitModal ==
    /\ showForm = "modal"
    /\ validCadence(formCadence)
    /\ IF assignment # {formCadence}
       THEN assignment' = {formCadence} /\ lastWrite' = {formCadence}
       ELSE UNCHANGED <<assignment, lastWrite>>
    /\ showForm' = "none"
    /\ formCadence' = EmptyFormCadence
    /\ UNCHANGED appVars

\* handleCancel / onClose.
handleCancel ==
    /\ showForm # "none"
    /\ showForm' = "none"
    /\ formCadence' = EmptyFormCadence
    /\ UNCHANGED <<assignment, lastWrite, appVars>>

\* handleAssignContact(contact.id): the picker assigns with the default cadence.
handleAssignContact ==
    /\ showForm = "none"
    /\ assignment = {}
    /\ assignment' = {AssignCadence}
    /\ lastWrite' = {AssignCadence}
    /\ UNCHANGED <<showForm, formCadence, appVars>>

\* handleRemoveFromOpportunity: the row is deleted.
handleRemoveFromOpportunity ==
    /\ showForm = "none"
    /\ assignment # {}
    /\ assignment' = {}
    /\ UNCHANGED <<showForm, formCadence, lastWrite, appVars>>

NextForm ==
    \/ NewContact
    \/ handleEdit
    \/ OpenModal
    \/ TypeCadence
    \/ SubmitForm
    \/ SubmitModal
    \/ handleCancel
    \/ handleAssignContact
    \/ handleRemoveFromOpportunity

SpecForm == InitForm /\ [][NextForm]_vars

----------------------------------------------------------------------------
(* Two never-contacted contacts due on a business day: submits of several  *)
(* cards in flight at once                                                  *)

InitTwo ==
    /\ tz \in TimeZones
    /\ now = (FirstToday + 1) * HoursPerDay + ClockHour
    /\ ticks = 0
    /\ opportunities = [id \in OppIds |->
          [status |-> "prospect", health_system |-> IF id = "o1" THEN NameB ELSE NameA]]
    /\ \E cad \in Cadences :
          contacts = <<[id |-> "c1", opportunity_id |-> "o1", cadence_days |-> cad],
                      [id |-> "c2", opportunity_id |-> "o2", cadence_days |-> DefaultCadence]>>
    /\ outreach_logs = <<>>
    /\ failed = {}
    /\ PageInit
    /\ CalOff
    /\ FormOff
    /\ SideOff

NextTwo ==
    \/ Mount
    \/ ToggleSelection
    \/ HandleSubmit
    \/ InsertOk
    \/ InsertError

SpecTwo == InitTwo /\ [][NextTwo]_vars

----------------------------------------------------------------------------
(* The LLM prompt of a contact. Strings are sequences of one-character     *)
(* strings.                                                                 *)

NotesLimit == 500       \* .slice(0, 500)
MaxPad == 2             \* most whitespace characters around the notes' text
OverLen == 100          \* longest notes text exceeds NotesLimit by this much

Whitespace == {" ", "\n"}

\* 'No additional internal notes.'
DefaultNotes ==
    <<"N", "o", " ", "a", "d", "d", "i", "t", "i", "o", "n", "a", "l", " ",
      "i", "n", "t", "e", "r", "n", "a", "l", " ", "n", "o", "t", "e", "s",
      ".">>

\* The template's text next to ${internalNotes}: "... verbatim:\n" before it
\* and "\n\nFirst, ..." after it. The rest of the fixed text is left out.
PromptHead ==
    <<"v", "e", "r", "b", "a", "t", "i", "m", ":", "\n">>
PromptTail ==
    <<"\n", "\n", "F", "i", "r", "s", "t", ",">>

\* String.prototype.trim(): whitespace removed from both ends.
RECURSIVE trimStart(_)
trimStart(str) ==
    IF str # <<>> /\ Head(str) \in Whitespace THEN trimStart(Tail(str)) ELSE str

RECURSIVE trimEnd(_)
trimEnd(str) ==
    IF str # <<>> /\ str[Len(str)] \in Whitespace
    THEN trimEnd(SubSeq(str, 1, Len(str) - 1))
    ELSE str

trim(str) == trimEnd(trimStart(str))

\* String.prototype.slice(0, end) for end >= 0.
slice(str, end) == SubSeq(str, 1, IF Len(str) < end THEN Len(str) ELSE end)

\* Variant: the notes are cut before they are trimmed.
internalNotes_sliceFirst(notes) ==
    LET cut == IF notes = {} THEN <<>> ELSE trim(slice(CHOOSE n \in notes : TRUE, NotesLimit))
    IN  IF cut = <<>> THEN DefaultNotes ELSE cut

\* (contact.notes?.trim() || 'No additional internal notes.').slice(0, 500)
internalNotes(notes) ==
    LET trimmed == IF notes = {} THEN <<>> ELSE trim(CHOOSE n \in notes : TRUE)
    IN  slice(IF trimmed = <<>> THEN DefaultNotes ELSE trimmed, NotesLimit)

buildLlmPromptForContact(notes) ==
    PromptHead \o internalNotes(notes) \o PromptTail

\* Notes texts: all 'X', or 'X' with a 'Z' as the character after the
\* NotesLimit-th one.
NotesLens == {0, 1, NotesLimit - 1, NotesLimit, NotesLimit + 1, NotesLimit + OverLen}
NotesBody(len, marked) ==
    [i \in 1..len |-> IF marked /\ i = NotesLimit + 1 THEN "Z" ELSE "X"]
Pads == {[i \in 1..k |-> w] : k \in 0..MaxPad, w \in Whitespace}
NotesInputs ==
    {lead \o NotesBody(len, marked) \o trail :
        lead \in Pads, trail \in Pads, len \in NotesLens, marked \in BOOLEAN}

InitPrompt ==
    /\ tz = 0
    /\ AppOff
    /\ CalOff
    /\ FormOff
    /\ promptNotes \in {{}} \cup {{n} : n \in NotesInputs}
    /\ promptText = {}
    /\ LoopOff
    /\ AssignOff
    /\ AuthOff

BuildPrompt ==
    /\ promptText = {}
    /\ promptText' = {buildLlmPromptForContact(promptNotes)}
    /\ UNCHANGED <<promptNotes, baseVars, loopVars, assignVars, authVars>>

NextPrompt == BuildPrompt

SpecPrompt == InitPrompt /\ [][NextPrompt]_vars

----------------------------------------------------------------------------
(* The business-day loops and the dashboard's streak loop, one iteration   *)
(* per step                                                                 *)

StreakSpan == 3         \* log dates reach this many days back from the clock's day
MaxNegN == 2            \* businessDays arguments go down to -MaxNegN

Methods == {"call", "email", "meeting"}

StreakRows(clock) ==
    {logRow("c1", d, meth) :
        d \in (formatDate(clock) - StreakSpan) .. formatDate(clock), meth \in Methods}

\* Rows in the order of .order('contact_date', { ascending: false }).
StreakLogs(clock) ==
    {logs \in UNION {[1..k -> StreakRows(clock)] : k \in 0..MaxLogs} :
        \A i \in 1..(Len(logs) - 1) : logs[i].contact_date >= logs[i + 1].contact_date}

\* logsData.some((l) => l.contact_date === dateStr && l.contact_method === 'email')
hasEmail(logs, dateStr) ==
    \E i \in DOMAIN logs :
        logs[i].contact_date = dateStr /\ logs[i].contact_method = "email"

addLoopCond(daysAdded, businessDays) == daysAdded < businessDays
countLoopCond(current, endDate) == current <= endDate

\* Variant: Monday is skipped as well.
nextLoopCond_throughMonday(next) == ~isBusinessDay(next) \/ getDay(next) = 1

nextLoopCond(next) == ~isBusinessDay(next)
streakLoopCond(checkDate) == hasEmail(outreach_logs, formatDate(checkDate))

LoopRest ==
    /\ ticks = 0
    /\ opportunities = <<>>
    /\ contacts = <<>>
    /\ failed = {}
    /\ PageInit
    /\ CalOff
    /\ FormOff
    /\ PromptOff
    /\ AssignOff
    /\ AuthOff
    /\ lpPc = "start"
    /\ lpDate = 0
    /\ lpCount = 0
    /\ lpSteps = 0

InitLoops ==
    /\ tz \in TimeZones
    /\ LoopRest
    /\ \/ /\ lpKind = "add"
          /\ lpFrom \in CalStarts
          /\ lpArg \in (0 - MaxNegN) .. MaxN
          /\ now = 0
          /\ outreach_logs = <<>>
       \/ /\ lpKind = "count"
          /\ lpFrom \in CalStarts
          /\ lpArg \in CalEnds
          /\ now = 0
          /\ outreach_logs = <<>>
       \/ /\ lpKind = "next"
          /\ lpFrom \in CalStarts
          /\ lpArg = 0
          /\ now = 0
          /\ outreach_logs = <<>>
       \/ /\ lpKind = "streak"
          /\ lpFrom = 0
          /\ lpArg = 0
          /\ now \in Clocks
          /\ outreach_logs \in StreakLogs(now)

\* The statements before the loop.
LoopCall ==
    /\ lpPc = "start"
    /\ lpPc' = "loop"
    /\ lpCount' = 0
    /\ \/ /\ lpKind = "add"
          /\ lpDate' = lpFrom
          /\ lpSteps' = 0
       \/ /\ lpKind \in {"count", "next"}
          /\ lpDate' = setDatePlus1(lpFrom)
          /\ lpSteps' = 1
       \/ /\ lpKind = "streak"
          /\ lpDate' = setHours0(now)
          /\ lpSteps' = 0
    /\ UNCHANGED <<lpKind, lpFrom, lpArg, baseVars, promptVars, assignVars, authVars>>

\* while (daysAdded < businessDays) { result.setDate(...); if (...) daysAdded++; }
AddStep ==
    /\ lpKind = "add"
    /\ lpPc = "loop"
    /\ addLoopCond(lpCount, lpArg)
    /\ lpDate' = setDatePlus1(lpDate)
    /\ lpCount' = IF isBusinessDay(lpDate') THEN lpCount + 1 ELSE lpCount
    /\ lpSteps' = lpSteps + 1
    /\ UNCHANGED <<lpKind, lpPc, lpFrom, lpArg, baseVars, promptVars, assignVars, authVars>>

\* while (current <= endDate) { if (...) count++; current.setDate(...); }
CountStep ==
    /\ lpKind = "count"
    /\ lpPc = "loop"
    /\ countLoopCond(lpDate, lpArg)
    /\ lpCount' = IF isBusinessDay(lpDate) THEN lpCount + 1 ELSE lpCount
    /\ lpDate' = setDatePlus1(lpDate)
    /\ lpSteps' = lpSteps + 1
    /\ UNCHANGED <<lpKind, lpPc, lpFrom, lpArg, baseVars, promptVars, assignVars, authVars>>

\* while (!isBusinessDay(next)) { next.setDate(...); }
NextStep ==
    /\ lpKind = "next"
    /\ lpPc = "loop"
    /\ nextLoopCond(lpDate)
    /\ lpDate' = setDatePlus1(lpDate)
    /\ lpSteps' = lpSteps + 1
    /\ UNCHANGED <<lpKind, lpPc, lpFrom, lpArg, lpCount, baseVars, promptVars, assignVars, authVars>>

\* while (true) { if (hasEmail) { streak++; checkDate.setDate(... - 1); } else break; }
StreakStep ==
    /\ lpKind = "streak"
    /\ lpPc = "loop"
    /\ streakLoopCond(lpDate)
    /\ lpCount' = lpCount + 1
    /\ lpDate' = lpDate - HoursPerDay
    /\ lpSteps' = lpSteps + 1
    /\ UNCHANGED <<lpKind, lpPc, lpFrom, lpArg, baseVars, promptVars, assignVars, authVars>>

\* The loop's condition is false: the function returns.
LoopReturn ==
    /\ lpPc = "loop"
    /\ \/ lpKind = "add" /\ ~addLoopCond(lpCount, lpArg)
       \/ lpKind = "count" /\ ~countLoopCond(lpDate, lpArg)
       \/ lpKind = "next" /\ ~nextLoopCond(lpDate)
       \/ lpKind = "streak" /\ ~streakLoopCond(lpDate)
    /\ lpPc' = "done"
    /\ UNCHANGED <<lpKind, lpFrom, lpArg, lpDate, lpCount, lpSteps, baseVars, promptVars, assignVars, authVars>>

NextLoops ==
    \/ LoopCall
    \/ AddStep
    \/ CountStep
    \/ NextStep
    \/ StreakStep
    \/ LoopReturn

SpecLoops == InitLoops /\ [][NextLoops]_vars

\* A running loop is not suspended for ever: the functions are synchronous.
SpecLoopsFair == SpecLoops /\ WF_vars(NextLoops)

----------------------------------------------------------------------------
(* The opportunity page's contact assignments, with two browser sessions   *)

MaxIds == 6             \* ids handed out by gen_random_uuid(), at most
MaxInflight == 2        \* inserts in flight at once, at most

Sessions == {"s1", "s2"}
AssignFailed == "Failed to assign contact to opportunity"
CreateAssignFailed == "Contact created but failed to assign to opportunity"
CreateCadences == {MinCadence, EmptyFormCadence}

\* Variant: the table has no UNIQUE(contact_id, opportunity_id).
uniqueViolation_off(table, req) == FALSE

\* UNIQUE(contact_id, opportunity_id)
uniqueViolation(table, req) ==
    \E row \in table :
        row.contact_id = req.contact_id /\ row.opportunity_id = req.opportunity_id

\* contact_id REFERENCES contacts(id), UNIQUE(contact_id, opportunity_id)
insertAllowed(req) ==
    req.contact_id \in coContacts /\ ~uniqueViolation(contact_opportunities, req)

\* fetchData: the opportunity's assignments (contact id, assignment id) and
\* the account's contacts that have none.
oppFetchData(opportunityId, table, contactIds) ==
    LET mine == {row \in table : row.opportunity_id = opportunityId}
    IN  [opportunityId |-> opportunityId,
         contacts |-> {<<row.contact_id, row.id>> : row \in mine},
         unassignedContacts |-> contactIds \ {row.contact_id : row \in mine}]

refetched(sess, table, contactIds) ==
    [coView EXCEPT ![sess] = oppFetchData(coView[sess].opportunityId, table, contactIds)]

InitAssign ==
    /\ tz = 0
    /\ AppOff
    /\ CalOff
    /\ FormOff
    /\ PromptOff
    /\ LoopOff
    /\ AuthOff
    /\ coContacts = {1, 2}
    /\ \/ contact_opportunities = {}
       \/ contact_opportunities =
            {[id |-> 3, contact_id |-> 1, opportunity_id |-> "o1", cadence_days |-> MinCadence]}
    /\ coNextId = 4
    /\ \E opp2 \in OppIds :
          coView = [sess \in Sessions |->
              oppFetchData(IF sess = "s1" THEN "o1" ELSE opp2, contact_opportunities, coContacts)]
    /\ coInflight = <<>>
    /\ coAlert = [sess \in Sessions |-> "none"]

\* The page is loaded again.
OppMount ==
    \E sess \in Sessions :
        /\ coView' = refetched(sess, contact_opportunities, coContacts)
        /\ coAlert' = [coAlert EXCEPT ![sess] = "none"]
        /\ UNCHANGED <<coContacts, contact_opportunities, coNextId, coInflight,
                       baseVars, promptVars, loopVars, authVars>>

\* handleAssignContact, up to the insert being sent.
AssignContact ==
    \E sess \in Sessions :
        \E contactId \in coView[sess].unassignedContacts :
            /\ Len(coInflight) < MaxInflight
            /\ coNextId + Len(coInflight) <= MaxIds
            /\ coInflight' = Append(coInflight,
                  [session |-> sess, kind |-> "assign", contact_id |-> contactId,
                   opportunity_id |-> coView[sess].opportunityId,
                   cadence_days |-> AssignCadence])
            /\ coAlert' = [coAlert EXCEPT ![sess] = "none"]
            /\ UNCHANGED <<coContacts, contact_opportunities, coNextId, coView,
                           baseVars, promptVars, loopVars, authVars>>

\* handleSubmit for a new contact: the contact is inserted, the insert of its
\* assignment is sent.
CreateContact ==
    \E sess \in Sessions, cad \in CreateCadences :
        /\ Len(coInflight) < MaxInflight
        /\ coNextId + Len(coInflight) + 1 <= MaxIds
        /\ coContacts' = coContacts \cup {coNextId}
        /\ coNextId' = coNextId + 1
        /\ coInflight' = Append(coInflight,
              [session |-> sess, kind |-> "create", contact_id |-> coNextId,
               opportunity_id |-> coView[sess].opportunityId, cadence_days |-> cad])
        /\ coAlert' = [coAlert EXCEPT ![sess] = "none"]
        /\ UNCHANGED <<contact_opportunities, coView, baseVars, promptVars, loopVars, authVars>>

\* The insert succeeds: the row is added and the page refetches.
AssignOk ==
    \E i \in DOMAIN coInflight :
        LET req == coInflight[i]
            table == contact_opportunities \cup
                       {[id |-> coNextId, contact_id |-> req.contact_id,
                         opportunity_id |-> req.opportunity_id,
                         cadence_days |-> req.cadence_days]}
        IN  /\ insertAllowed(req)
            /\ contact_opportunities' = table
            /\ coNextId' = coNextId + 1
            /\ coView' = refetched(req.session, table, coContacts)
            /\ coInflight' = removeAt(coInflight, i)
            /\ UNCHANGED <<coContacts, coAlert, baseVars, promptVars, loopVars, authVars>>

\* The insert is rejected: an alert, and no row is written. handleSubmit
\* refetches all the same, handleAssignContact does not.
AssignError ==
    \E i \in DOMAIN coInflight :
        LET req == coInflight[i]
        IN  /\ ~insertAllowed(req)
            /\ coAlert' = [coAlert EXCEPT ![req.session] =
                              IF req.kind = "assign" THEN AssignFailed ELSE CreateAssignFailed]
            /\ coView' = IF req.kind = "create"
                         THEN refetched(req.session, contact_opportunities, coContacts)
                         ELSE coView
            /\ coInflight' = removeAt(coInflight, i)
            /\ UNCHANGED <<coContacts, contact_opportunities, coNextId,
                           baseVars, promptVars, loopVars, authVars>>

\* handleRemoveFromOpportunity: delete ... eq('id', contact.assignment_id)
RemoveFromOpportunity ==
    \E sess \in Sessions :
        \E shown \in coView[sess].contacts :
            LET table == {row \in contact_opportunities : row.id # shown[2]}
            IN  /\ contact_opportunities' = table
                /\ coView' = refetched(sess, table, coContacts)
                /\ coAlert' = [coAlert EXCEPT ![sess] = "none"]
                /\ UNCHANGED <<coContacts, coNextId, coInflight,
                               baseVars, promptVars, loopVars, authVars>>

\* handleDeleteContact: the contact's assignments go with it (ON DELETE CASCADE).
DeleteContact ==
    \E sess \in Sessions :
        \E shown \in coView[sess].contacts :
            LET table == {row \in contact_opportunities : row.contact_id # shown[1]}
                kept == coContacts \ {shown[1]}
            IN  /\ coContacts' = kept
                /\ contact_opportunities' = table
                /\ coView' = refetched(sess, table, kept)
                /\ coAlert' = [coAlert EXCEPT ![sess] = "none"]
                /\ UNCHANGED <<coNextId, coInflight, baseVars, promptVars, loopVars, authVars>>

NextAssign ==
    \/ OppMount
    \/ AssignContact
    \/ CreateContact
    \/ AssignOk
    \/ AssignError
    \/ RemoveFromOpportunity
    \/ DeleteContact

SpecAssign == InitAssign /\ [][NextAssign]_vars

----------------------------------------------------------------------------
(* The password gate: middleware and /api/auth. Paths are sequences of     *)
(* one-character strings.                                                   *)

MaxGuesses == 1         \* passwords and cookie values other than the configured one

PathLogin == <<"/", "l", "o", "g", "i", "n">>
PathApiAuth == <<"/", "a", "p", "i", "/", "a", "u", "t", "h">>

\* The alternatives of the matcher's negative lookahead; "." matches any
\* character.
MatcherExcluded ==
    {<<"_", "n", "e", "x", "t", "/", "s", "t", "a", "t", "i", "c">>,
     <<"_", "n", "e", "x", "t", "/", "i", "m", "a", "g", "e">>,
     <<"f", "a", "v", "i", "c", "o", "n", "any", "i", "c", "o">>}

Paths ==
    {<<"/">>,
     <<"/", "l", "o", "g", "i", "n">>,
     <<"/", "l", "o", "g", "i", "n", "/", "h", "e", "l", "p">>,
     <<"/", "a", "p", "i", "/", "a", "u", "t", "h">>,
     <<"/", "a", "p", "i", "/", "a", "u", "t", "h", "/", "s", "e", "s", "s", "i", "o", "n">>,
     <<"/", "a", "p", "i", "/", "a", "u", "t", "h", "o", "r", "s">>,
     <<"/", "a", "p", "i", "/", "c", "o", "n", "t", "a", "c", "t", "s">>,
     <<"/", "d", "a", "s", "h", "b", "o", "a", "r", "d">>,
     <<"/", "_", "n", "e", "x", "t", "/", "s", "t", "a", "t", "i", "c", "/", "c", "h", "u", "n", "k", "s", "/", "m", "a", "i", "n", ".", "j", "s">>,
     <<"/", "_", "n", "e", "x", "t", "/", "i", "m", "a", "g", "e">>,
     <<"/", "_", "n", "e", "x", "t", "/", "d", "a", "t", "a", "/", "b", "u", "i", "l", "d", ".", "j", "s", "o", "n">>,
     <<"/", "f", "a", "v", "i", "c", "o", "n", ".", "i", "c", "o">>,
     <<"/", "f", "a", "v", "i", "c", "o", "n", "X", "i", "c", "o">>,
     <<"/", "f", "a", "v", "i", "c", "o", "n">>}

\* Passwords and cookie values are strings too: "", "secret", "g", "gg", ...
Secrets == {<<>>, <<"s", "e", "c", "r", "e", "t">>}
Guesses == {[j \in 1..i |-> "g"] : i \in 1..MaxGuesses}

\* String.prototype.startsWith
startsWith(str, prefix) ==
    Len(prefix) <= Len(str) /\ SubSeq(str, 1, Len(prefix)) = prefix

\* The pattern matches at the start of the string.
lookingAt(str, pattern) ==
    /\ Len(pattern) <= Len(str)
    /\ \A i \in DOMAIN pattern : pattern[i] = "any" \/ pattern[i] = str[i]

\* config.matcher: '/((?!_next/static|_next/image|favicon.ico).*)'
matcher(pathname) ==
    /\ pathname # <<>>
    /\ Head(pathname) = "/"
    /\ \A pattern \in MatcherExcluded : ~lookingAt(Tail(pathname), pattern)

\* !value of a string or undefined
falsy(value) == value = {} \/ value = {<<>>}

\* Variant: any cookie that is not empty is accepted.
tokenRejected_emptyOnly(authToken, password) == falsy(authToken)

\* !authToken || authToken !== appPassword
tokenRejected(authToken, password) == falsy(authToken) \/ authToken # password

middleware(pathname, authToken) ==
    IF pathname = PathLogin \/ startsWith(pathname, PathApiAuth) THEN "next"
    ELSE IF tokenRejected(authToken, appPassword) THEN "redirect"
    ELSE "next"

InitAuth ==
    /\ tz = 0
    /\ AppOff
    /\ CalOff
    /\ FormOff
    /\ PromptOff
    /\ LoopOff
    /\ AssignOff
    /\ appPassword \in {{}} \cup {{secret} : secret \in Secrets}
    /\ authCookie = {}
    /\ authRequest = [path |-> <<>>, cookie |-> {}]
    /\ authResponse = "none"

\* A request for a page or a file: the middleware runs on the paths the
\* matcher selects, the others are served without it.
Request ==
    \E pathname \in Paths :
        /\ authRequest' = [path |-> pathname, cookie |-> authCookie]
        /\ authResponse' = IF matcher(pathname) THEN middleware(pathname, authCookie)
                           ELSE "unmatched"
        /\ UNCHANGED <<appPassword, authCookie, baseVars, promptVars, loopVars, assignVars>>

\* POST /api/auth
PostAuth ==
    \E password \in Secrets \cup Guesses :
        /\ authRequest' = [path |-> PathApiAuth, cookie |-> authCookie]
        /\ IF falsy(appPassword)
           THEN authResponse' = "500" /\ UNCHANGED authCookie
           ELSE IF {password} = appPassword
           THEN authResponse' = "200" /\ authCookie' = appPassword
           ELSE authResponse' = "401" /\ UNCHANGED authCookie
        /\ UNCHANGED <<appPassword, baseVars, promptVars, loopVars, assignVars>>

\* DELETE /api/auth
DeleteAuth ==
    /\ authRequest' = [path |-> PathApiAuth, cookie |-> authCookie]
    /\ authResponse' = "200"
    /\ authCookie' = {}
    /\ UNCHANGED <<appPassword, baseVars, promptVars, loopVars, assignVars>>

\* The client holds whatever cookie it likes.
EditCookie ==
    \E value \in Secrets \cup Guesses :
        /\ authCookie' = {value}
        /\ UNCHANGED <<appPassword, authRequest, authResponse,
                       baseVars, promptVars, loopVars, assignVars>>

NextAuth ==
    \/ Request
    \/ PostAuth
    \/ DeleteAuth
    \/ EditCookie

SpecAuth == InitAuth /\ [][NextAuth]_vars

----------------------------------------------------------------------------
(* Properties; their vocabulary is in calendar days *)

\* Day of the week of a day number, 0 = Sunday.
weekday(day) == (day + 4) % 7

isWeekday(day) == weekday(day) \in 1 .. 5

\* Business days in the interval (from, to] of day numbers.
businessDaysBetween(from, to) == Cardinality({d \in (from + 1) .. to : isWeekday(d)})

\* The first Mon-Fri day strictly after a day number.
nextWeekday(day) == CHOOSE d \in (day + 1) .. (day + 3) :
                        isWeekday(d) /\ \A e \in (day + 1) .. (d - 1) : ~isWeekday(e)

\* The local calendar day of fetchData's `today`.
todayDay == localDay(today)

inList(list, contactId) == \E i \in DOMAIN list : list[i].id = contactId

hasOutreach(contactId) == \E j \in DOMAIN outreach_logs : outreach_logs[j].contact_id = contactId

\* The greatest contact_date stored for a contact.
lastOutreachDay(contactId) ==
    CHOOSE d \in {outreach_logs[j].contact_date : j \in {k \in DOMAIN outreach_logs :
                                                     outreach_logs[k].contact_id = contactId}} :
        \A j \in DOMAIN outreach_logs :
            outreach_logs[j].contact_id = contactId => outreach_logs[j].contact_date <= d

\* The entries fetchData computed in its latest run.
Processed == {allDueContacts[i] : i \in DOMAIN allDueContacts}

\* C1: for every start date d and every n >= 1, addBusinessDays(d, n) is a
\* business day and countBusinessDays(d, addBusinessDays(d, n)) = n: exactly
\* n business days lie in (d, result].
C1_AddBusinessDaysExact ==
    (calPc = "counted" /\ calN >= 1)
        => (/\ isBusinessDay(calResult)
            /\ isWeekday(localDay(calResult))
            /\ calCount = calN
            /\ businessDaysBetween(localDay(calStart), localDay(calResult)) = calN)

\* A count of more than a week of business days from a weekend start.
C1_Witness ==
    /\ calPc = "counted"
    /\ calN >= 6
    /\ ~isBusinessDay(calStart)
    /\ calCount = calN

\* C2: a processed contact is in the due-today list if and only if its
\* computed due date is on or before today, compared by calendar date.
C2_DueTodayIffDue ==
    \A c \in Processed :
        inList(todayContacts, c.id) <=> localDay(c.dueDate) <= todayDay

\* C3: is_rollover is true if and only if the due date is strictly before
\* today and today is Mon-Fri; never on a weekend, never for a contact
\* without outreach.
C3_RolloverIffOverdueOnBusinessDay ==
    \A c \in Processed :
        /\ c.is_rollover <=> (localDay(c.dueDate) < todayDay /\ isWeekday(todayDay))
        /\ ~isWeekday(todayDay) => ~c.is_rollover
        /\ ~hasOutreach(c.id) => ~c.is_rollover

\* A rollover contact at the head of the due-today list, and on another
\* page load an overdue contact on a weekend.
C3_Witness ==
    /\ todayContacts # <<>>
    /\ todayContacts[1].is_rollover
    /\ todayContacts[1].days_overdue >= 2

\* C4: cadence c >= 1, last outreach exactly c + k business days before
\* today (k >= 1), today Mon-Fri: is_rollover = true and days_overdue = k.
C4_OverdueByK ==
    \A c \in Processed :
        (/\ hasOutreach(c.id)
         /\ c.cadence_days >= 1
         /\ isWeekday(todayDay)
         /\ businessDaysBetween(lastOutreachDay(c.id), todayDay) > c.cadence_days)
        => (/\ c.is_rollover
            /\ c.days_overdue =
                 businessDaysBetween(lastOutreachDay(c.id), todayDay) - c.cadence_days)

\* C5: cadence c >= 1, last outreach exactly c business days before today:
\* due date = today, in the due-today list, not rollover, days_overdue = 0.
C5_DueExactlyToday ==
    \A c \in Processed :
        (/\ hasOutreach(c.id)
         /\ c.cadence_days >= 1
         /\ isWeekday(todayDay)
         /\ businessDaysBetween(lastOutreachDay(c.id), todayDay) = c.cadence_days)
        => (/\ localDay(c.dueDate) = todayDay
            /\ inList(todayContacts, c.id)
            /\ ~c.is_rollover
            /\ c.days_overdue = 0)

\* C6: no outreach event and today Mon-Fri: due date = today, in the
\* due-today list, last_contact_date and days_since_contact null,
\* days_overdue = 0, is_rollover = false.
C6_NeverContactedBusinessDay ==
    \A c \in Processed :
        (~hasOutreach(c.id) /\ isWeekday(todayDay))
        => (/\ localDay(c.dueDate) = todayDay
            /\ inList(todayContacts, c.id)
            /\ c.last_contact_date = {}
            /\ c.days_since_contact = {}
            /\ c.days_overdue = 0
            /\ ~c.is_rollover)

C6_Witness ==
    /\ isWeekday(todayDay)
    /\ todayContacts # <<>>
    /\ ~hasOutreach(todayContacts[1].id)
    /\ todayContacts[1].days_since_contact = {}

\* C7: no outreach event and today Saturday or Sunday: the due date is the
\* following Monday, the contact is not in the due-today list, it is in the
\* next-business-day list, days_overdue = 0.
C7_NeverContactedWeekend ==
    \A c \in Processed :
        (~hasOutreach(c.id) /\ ~isWeekday(todayDay))
        => (/\ localDay(c.dueDate) = nextWeekday(todayDay)
            /\ weekday(localDay(c.dueDate)) = 1
            /\ ~inList(todayContacts, c.id)
            /\ inList(nextDayContacts, c.id)
            /\ c.days_overdue = 0)

\* C8: a processed contact is in the next-business-day list if and only if
\* its computed due date is exactly the next business day after today.
C8_NextDayIffDueNextBusinessDay ==
    \A c \in Processed :
        inList(nextDayContacts, c.id) <=> localDay(c.dueDate) = nextWeekday(todayDay)

\* C10: no contact is listed through an active or won opportunity; only
\* prospect or status-less opportunities contribute, and without any such
\* opportunity both lists are empty.
C10_OnlyProspectOpportunities ==
    /\ \A list \in {todayContacts, nextDayContacts} :
          \A i \in DOMAIN list :
              /\ list[i].opportunity_id \in DOMAIN opportunities
              /\ opportunities[list[i].opportunity_id].status \in {Null, "prospect"}
    /\ (\A id \in DOMAIN opportunities : opportunities[id].status \in {"active", "won"})
          => (todayContacts = <<>> /\ nextDayContacts = <<>>)

\* The page has loaded, a never-contacted contact sits on a won or active
\* opportunity next to a prospect opportunity, and is not listed.
C10_Witness ==
    /\ ~loading
    /\ isWeekday(todayDay)
    /\ \E i \in DOMAIN contacts :
          /\ contacts[i].opportunity_id \in DOMAIN opportunities
          /\ opportunities[contacts[i].opportunity_id].status \in {"active", "won"}
          /\ ~hasOutreach(contacts[i].id)
    /\ \E id \in DOMAIN opportunities : opportunities[id].status = "prospect"
    /\ todayContacts = <<>>

\* Case-insensitive comparison of two account names.
lowerCaseLessEq(a, b) ==
    lexCompare([i \in DOMAIN a |-> toLower(a[i])], [i \in DOMAIN b |-> toLower(b[i])]) <= 0

\* The order of the due-today list: rollover first, then descending
\* days_overdue, then ascending account name ignoring case.
inTodayOrder(a, b) ==
    \/ a.is_rollover /\ ~b.is_rollover
    \/ /\ a.is_rollover = b.is_rollover
       /\ \/ a.days_overdue > b.days_overdue
          \/ /\ a.days_overdue = b.days_overdue
             /\ lowerCaseLessEq(a.health_system, b.health_system)

\* C9: whatever the order of the contacts, every element of the due-today
\* list precedes every later element in the order rollover first, then
\* descending days_overdue, then ascending case-insensitive account name.
C9_DueTodayOrdered ==
    \A i, j \in DOMAIN todayContacts :
        i < j => inTodayOrder(todayContacts[i], todayContacts[j])

\* Two rollover contacts with different days_overdue ahead of a contact
\* due exactly today, against the order of their account names.
C9_Witness ==
    /\ Len(todayContacts) = 3
    /\ todayContacts[1].is_rollover
    /\ todayContacts[2].is_rollover
    /\ todayContacts[1].days_overdue > todayContacts[2].days_overdue
    /\ ~todayContacts[3].is_rollover
    /\ todayContacts[3].days_overdue = 0
    /\ ~lowerCaseLessEq(todayContacts[1].health_system, todayContacts[3].health_system)
    /\ todayContacts[1].id = "c3"

\* The stored contact of a computed entry.
contactOf(contactId) == CHOOSE c \in {contacts[i] : i \in DOMAIN contacts} : c.id = contactId

\* The logs of a contact other than (one of) its latest.
olderLogs(contactId) ==
    {j \in DOMAIN outreach_logs :
        /\ outreach_logs[j].contact_id = contactId
        /\ outreach_logs[j].contact_date < lastOutreachDay(contactId)}

\* C11: for a contact with outreach events, due date, days_since_contact,
\* days_overdue and is_rollover are those computed from the event with the
\* greatest contact_date alone: the older events change none of them.
C11_OnlyLatestEventCounts ==
    \A c \in Processed :
        hasOutreach(c.id) =>
            LET alone == dueInfo(contactOf(c.id),
                                 <<logRow(c.id, lastOutreachDay(c.id), "email")>>,
                                 today, isBusinessDayToday,
                                 CHOOSE d \in nextBusinessDay : TRUE)
            IN  /\ c.last_contact_date = {lastOutreachDay(c.id)}
                /\ c.dueDate = alone.dueDate
                /\ c.due_date = alone.due_date
                /\ c.days_since_contact = alone.days_since_contact
                /\ c.days_overdue = alone.days_overdue
                /\ c.is_rollover = alone.is_rollover

\* A contact that was due by an older event has been logged today and has
\* left the due-today list.
C11_Witness ==
    \E c \in Processed :
        /\ olderLogs(c.id) # {}
        /\ c.cadence_days >= 1
        /\ ~inList(todayContacts, c.id)

\* C12: a previously contacted contact whose cadence is missing, 0 or
\* negative is due addBusinessDays(last outreach date, 10).
C12_NonPositiveCadenceDefaults ==
    \A c \in Processed :
        (hasOutreach(c.id) /\ c.cadence_days <= 0)
        => c.dueDate = addBusinessDays(setHours0(parseDate(lastOutreachDay(c.id))),
                                       DefaultCadence)

\* C13: whatever cadence is stored, the due date of a previously contacted
\* contact is strictly later than its last outreach date.
C13_DueAfterLastOutreach ==
    \A c \in Processed :
        hasOutreach(c.id) => localDay(c.dueDate) > lastOutreachDay(c.id)

\* C18: days_since_contact is the number of calendar days from the last
\* outreach date to today, and is null for a never-contacted contact.
C18_DaysSinceContactCalendarDays ==
    \A c \in Processed :
        /\ hasOutreach(c.id) => c.days_since_contact = {todayDay - lastOutreachDay(c.id)}
        /\ ~hasOutreach(c.id) => c.days_since_contact = {}

\* fetchData has run at least once.
fetched == today # 0

\* C15: when the select of opportunities, contacts or outreach_logs fails,
\* both lists are empty and nothing is thrown; the lists are never computed
\* from the tables that could be read.
C15_FailedFetchEmptyLists ==
    (fetched /\ failed # {})
        => (todayContacts = <<>> /\ nextDayContacts = <<>> /\ ~threw)

\* The contacts fetchData processes: those read with a prospect opportunity.
eligible == {contactsData[i] : i \in DOMAIN contactsData}

\* C16: a contact whose most recent outreach event has an unparseable date
\* is handled as never contacted: nothing is thrown, the page finishes
\* loading, the due date is today on a business day and the next business
\* day otherwise, and days_since_contact is null.
C16_MalformedDateAsNeverContacted ==
    (fetched /\ failed = {})
        => \A k \in eligible :
              (hasOutreach(k.id) /\ ~isValidDate(lastOutreachDay(k.id)))
              => (/\ ~threw
                  /\ ~loading
                  /\ \E c \in Processed :
                        /\ c.id = k.id
                        /\ localDay(c.dueDate) = (IF isWeekday(todayDay) THEN todayDay
                                                  ELSE nextWeekday(todayDay))
                        /\ c.days_since_contact = {})

\* C14: every cadence the contact forms write to contact_opportunities lies
\* in [1, 90], whatever was typed into the cadence field, and a text that
\* does not parse to a number puts 10 into the form.
C14_FormsWriteCadenceInRange ==
    /\ \A n \in lastWrite : n \in MinCadence .. MaxCadence
    /\ \A text \in TypedTexts : parseInt(text) = {} => cadenceInput(text) = 10

\* A cadence typed into the edit form has replaced a stored value outside
\* [1, 90].
C14_Witness ==
    /\ lastWrite = {90}
    /\ assignment = {90}
    /\ showForm = "none"

\* C19: countBusinessDays(start, end) is 0 whenever end <= start, is never
\* negative, and does not decrease when end increases.
C19_CountBusinessDaysMonotone ==
    calPc = "ends"
        => (/\ calEnd <= calStart => calCountEnd = 0
            /\ calEnd2 <= calStart => calCountEnd2 = 0
            /\ calCountEnd >= 0
            /\ calCountEnd2 >= 0
            /\ calCountEnd <= calCountEnd2)

\* An end date at the start date, a business day, and a second end date
\* more than a week of business days later.
C19_Witness ==
    /\ calPc = "ends"
    /\ calEnd = calStart
    /\ isBusinessDay(calStart)
    /\ calCountEnd = 0
    /\ calCountEnd2 > 5

\* C20: isBusinessDay is false exactly on Saturday and Sunday, and
\* getNextBusinessDay(d) is the earliest date strictly after d that is a
\* business day.
C20_BusinessDayAndNext ==
    calPc \in {"day", "ends"}
        => (/\ calIsBiz <=> weekday(localDay(calStart)) \notin {0, 6}
            /\ calNext > calStart
            /\ localDay(calNext) > localDay(calStart)
            /\ isWeekday(localDay(calNext))
            /\ \A d \in (localDay(calStart) + 1) .. (localDay(calNext) - 1) : ~isWeekday(d)
            /\ (calNext - calStart) % HoursPerDay = 0)

\* From a Friday the next business day is the Monday three days later.
C20_Witness ==
    /\ calPc = "day"
    /\ calIsBiz
    /\ weekday(localDay(calStart)) = 5
    /\ localDay(calNext) = localDay(calStart) + 3

\* C29: days_overdue is never negative; on a business day is_rollover holds
\* exactly when days_overdue >= 1; so a contact in the due-today list with
\* days_overdue = 0 on a business day is due exactly today.
C29_OverdueAndRollover ==
    \A c \in Processed :
        /\ c.days_overdue >= 0
        /\ isWeekday(todayDay) => (c.is_rollover <=> c.days_overdue >= 1)
        /\ (isWeekday(todayDay) /\ inList(todayContacts, c.id) /\ c.days_overdue = 0)
              => localDay(c.dueDate) = todayDay

\* The ids of a list, in order.
idsOf(list) == [i \in DOMAIN list |-> list[i].id]

noDuplicates(list) == \A i, j \in DOMAIN list : i # j => list[i].id # list[j].id

\* C30: the due-today list and the next-business-day list are disjoint,
\* hold each contact at most once, and hold only entries computed by the
\* per-contact computation.
C30_ListsDisjoint ==
    /\ \A i \in DOMAIN todayContacts, j \in DOMAIN nextDayContacts :
          todayContacts[i].id # nextDayContacts[j].id
    /\ noDuplicates(todayContacts)
    /\ noDuplicates(nextDayContacts)
    /\ \A i \in DOMAIN todayContacts : todayContacts[i] \in Processed
    /\ \A i \in DOMAIN nextDayContacts : nextDayContacts[i] \in Processed

\* A page load on a weekend: contacted contacts are overdue in the due-today
\* list, a never-contacted one waits in the next-business-day list.
C30_Witness ==
    /\ Len(allDueContacts) = 3
    /\ Len(todayContacts) = 2
    /\ Len(nextDayContacts) = 1
    /\ ~isWeekday(todayDay)

\* The number of methods ticked in a selection.
selectedCount(selection) ==
    (IF selection.emailed THEN 1 ELSE 0) + (IF selection.called THEN 1 ELSE 0)

\* A Mark Complete was started by this step: a request was added.
submitStarted == Len(inflight') > Len(inflight)

\* An insert was acknowledged by this step: rows were added.
rowsInserted == Len(outreach_logs') > Len(outreach_logs)

\* The rows added by this step.
newRows == SubSeq(outreach_logs', Len(outreach_logs) + 1, Len(outreach_logs'))

\* C23: a submit inserts exactly one outreach-log row per selected method,
\* one or two rows, all of the submitted contact, and then refreshes the
\* lists; without a selected method nothing is submitted, and a step that
\* inserts no row refreshes no list.
C23_OneRowPerSelectedMethod ==
    [][/\ submitStarted =>
            LET req == inflight'[Len(inflight')]
                selection == selectionOf(req.contact_id)
            IN  /\ selectedCount(selection) \in {1, 2}
                /\ Len(req.logs) = selectedCount(selection)
                /\ selection.emailed <=> \E k \in DOMAIN req.logs : req.logs[k].contact_method = "email"
                /\ selection.called <=> \E k \in DOMAIN req.logs : req.logs[k].contact_method = "call"
       /\ rowsInserted =>
            \E i \in DOMAIN inflight :
                /\ Len(newRows) = Len(inflight[i].logs)
                /\ \A k \in DOMAIN newRows :
                      /\ newRows[k].contact_id = inflight[i].contact_id
                      /\ newRows[k].contact_method = inflight[i].logs[k].contact_method
                /\ today' = setHours0(now)
                /\ \A c \in {allDueContacts'[j] : j \in DOMAIN allDueContacts'} :
                      c.id = inflight[i].contact_id => c.last_contact_date # {}
       /\ (~loading /\ ~rowsInserted) => UNCHANGED <<outreach_logs, todayContacts, nextDayContacts>>
      ]_vars

\* Both methods were ticked for a never-contacted contact: two rows of the
\* same date, one email and one call, and the page is idle again.
C23_Witness ==
    /\ Len(outreach_logs) = 2
    /\ outreach_logs[1].contact_id = outreach_logs[2].contact_id
    /\ outreach_logs[1].contact_date = outreach_logs[2].contact_date
    /\ outreach_logs[1].contact_method = "email"
    /\ outreach_logs[2].contact_method = "call"
    /\ inflight = <<>>
    /\ submittingId = Null

\* C28: a successful Mark Complete removes the contact from the due-today
\* list and clears its selection, and the contact stays out of the list
\* until cadence business days after the logged date; a failed insert
\* leaves the selection and the list unchanged and resets submittingId.
C28_MarkCompleteRemovesContact ==
    /\ [][/\ rowsInserted =>
                LET k == newRows[1].contact_id
                IN  /\ k \notin DOMAIN selections'
                    /\ contactOf(k).cadence_days >= 1 => ~inList(todayContacts', k)
           /\ (Len(inflight') < Len(inflight) /\ ~rowsInserted) =>
                /\ UNCHANGED <<selections, todayContacts, nextDayContacts>>
                /\ submittingId' = Null
          ]_vars
    /\ [](\A c \in Processed :
            (hasOutreach(c.id) /\ c.cadence_days >= 1 /\ inList(todayContacts, c.id))
            => businessDaysBetween(lastOutreachDay(c.id), todayDay) >= c.cadence_days)

\* C27: while a Mark Complete of a contact is in flight its button stays
\* disabled by submittingId, so no second insert of the same contact is
\* started, whatever happens on the other cards.
C27_NoSecondSubmitInFlight ==
    /\ \A i \in DOMAIN inflight : submittingId = inflight[i].contact_id
    /\ \A i, j \in DOMAIN inflight :
          i # j => inflight[i].contact_id # inflight[j].contact_id

\* String.prototype.includes
contains(hay, needle) ==
    \E i \in 0..(Len(hay) - Len(needle)) : SubSeq(hay, i + 1, i + Len(needle)) = needle

builtPrompt == CHOOSE p \in promptText : TRUE
givenNotes == CHOOSE n \in promptNotes : TRUE
isBlank(str) == \A i \in DOMAIN str : str[i] \in Whitespace
firstInk(str) == CHOOSE i \in DOMAIN str : str[i] \notin Whitespace /\ isBlank(SubSeq(str, 1, i - 1))
lastInk(str) == CHOOSE i \in DOMAIN str : str[i] \notin Whitespace /\ isBlank(SubSeq(str, i + 1, Len(str)))
minOf(a, b) == IF a < b THEN a ELSE b

hasActivity(day) == \E i \in DOMAIN outreach_logs : outreach_logs[i].contact_date = day

\* Consecutive business days with a log, counted back from `day`; weekend
\* days are passed over.
RECURSIVE businessDayStreak(_)
businessDayStreak(day) ==
    IF day < BaseDay THEN 0
    ELSE IF ~isWeekday(day) THEN businessDayStreak(day - 1)
    ELSE IF hasActivity(day) THEN 1 + businessDayStreak(day - 1)
    ELSE 0

\* C25: the dashboard's streak is the number of consecutive business days,
\* counted back from today, with at least one outreach log of any method;
\* weekend days do not break it.
C25_StreakCountsBusinessDays ==
    (lpKind = "streak" /\ lpPc = "done") => lpCount = businessDayStreak(localDay(now))

\* C26: each loop comes to its end; addBusinessDays returns the start date
\* for n <= 0, countBusinessDays returns 0 for an end before the start,
\* getNextBusinessDay moves the date at most 3 times, and every loop returns
\* what the function computes.
C26_LoopsTerminate ==
    /\ <>(lpPc = "done")
    /\ [](lpKind = "next" => lpSteps <= 3)
    /\ [](lpPc = "done" =>
            /\ lpKind = "add" =>
                  /\ lpDate = addBusinessDays(lpFrom, lpArg)
                  /\ lpArg <= 0 => (lpDate = lpFrom /\ lpSteps = 0)
            /\ lpKind = "count" =>
                  /\ lpCount = countBusinessDays(lpFrom, lpArg)
                  /\ lpArg < lpFrom => lpCount = 0
            /\ lpKind = "next" => lpDate = getNextBusinessDay(lpFrom)
            /\ lpKind = "streak" => lpSteps = lpCount /\ lpCount <= Len(outreach_logs))

\* getNextBusinessDay of a Friday has returned after moving the date 3 times.
C26_Witness ==
    /\ lpKind = "next"
    /\ lpPc = "done"
    /\ lpSteps = 3
    /\ getDay(lpFrom) = 5
    /\ getDay(lpDate) = 1

samePair(a, b) == a.contact_id = b.contact_id /\ a.opportunity_id = b.opportunity_id

\* C21: there is at most one assignment row per (contact, opportunity) pair,
\* and an insert for a pair that has a row is answered with an error and
\* leaves the table, hence the existing row and its cadence, as it is.
C21_UniqueAssignment ==
    /\ [](\A r1, r2 \in contact_opportunities : samePair(r1, r2) => r1 = r2)
    /\ [][\A i \in DOMAIN coInflight :
            (/\ coInflight' = removeAt(coInflight, i)
             /\ \E row \in contact_opportunities : samePair(row, coInflight[i]))
            => /\ contact_opportunities' = contact_opportunities
               /\ coAlert'[coInflight[i].session] \in {AssignFailed, CreateAssignFailed}]_vars

\* A session whose picker still lists a contact has been refused the
\* assignment another session created, and that row keeps its cadence.
C21_Witness ==
    \E row \in contact_opportunities, sess \in Sessions :
        /\ coAlert[sess] = AssignFailed
        /\ row.contact_id \in coView[sess].unassignedContacts
        /\ row.opportunity_id = coView[sess].opportunityId
        /\ row.cadence_days # AssignCadence
        /\ coInflight = <<>>

exemptPath(pathname) == pathname = PathLogin \/ startsWith(pathname, PathApiAuth)
cookieMatches == authRequest.cookie # {} /\ authRequest.cookie = appPassword
servedRequest == authResponse \in {"next", "unmatched"}
pageRequest == authResponse \in {"next", "redirect", "unmatched"}

====
